---- MODULE Spec2Model ----
(***************************************************************************)
(* A model of the wiki item scraper (src/src/wiki_scraper.py): the         *)
(* category pagination loop, the per-URL detail scrape, the classifier,    *)
(* the bucketed CSV export, the crawl over the category list, the scrape   *)
(* of a caller-given URL list and the console output through rich.print,   *)
(* which raises MarkupError on a closing tag that has no opening tag.      *)
(*                                                                         *)
(* Text (hrefs, URLs, display texts, dictionary keys, attribute values,    *)
(* item names, cells) is TLA+ strings; lower(), substring containment,     *)
(* startswith, split and replace are computed character by character with  *)
(* Len, SubSeq and \o, as Python computes them.                            *)
(***************************************************************************)
EXTENDS Integers, Sequences, FiniteSets, TLC

VARIABLES
    cat,          \* crawl_categories: index in `categories` of the category being crawled
    pc,           \* position of the control flow
    links,        \* _extract_category_items: the set `links`
    last_item,    \* _extract_category_items: the cursor `last_item`
    requests,     \* number of listing requests this pagination has made
    response,     \* outcome of the latest listing request (None before the first)
    urls,         \* scrape_category: the list returned by _extract_category_items
    idx,          \* scrape_category: position of the loop over `urls`
    items,        \* scrape_category: the list `items`
    fetched,      \* the URLs of the detail requests of this call, in order
    detail,       \* the latest detail request and its answer (None before the first)
    failed_items, \* ItemScraper.failed_items
    files,        \* the output directory: path -> lines of the file
    prevFiles,    \* the output directory as it was when _export_items was entered
    exportState,  \* "none", "ok" or "raised": how _export_items ended for this category
    writers,      \* path -> the categories whose export opened it for writing
    processed,    \* the categories whose scrape_category call has returned, in order
    all_items,    \* crawl_categories: the list `all_items`
    report,       \* main: the operator report (None until printed)
    uncaught,     \* the message of the exception that left main or scrape_items
    probe,        \* a single listing anchor and detail page given to the scraper
    probed,       \* what the scraper made of `probe` (None until it ran)
    calls,        \* the items given to CSVExporter.export_item so far, in order
    csvfile       \* the file of CSVExporter.export_item (None while absent)

\* The variables of the crawl, and those of the single-call runs.
crawl == << cat, pc, links, last_item, requests, response, urls, idx, items, fetched,
            detail, failed_items, files, prevFiles, exportState, writers, processed,
            all_items, report, uncaught >>
single == << probe, probed, calls, csvfile >>

vars == << crawl, single >>

\* Python's None, and a value that is not None.
None == [some |-> FALSE]
Some(v) == [some |-> TRUE, val |-> v]

-----------------------------------------------------------------------------
(* Bounds of the model. *)

\* Number of categories of the crawl list that the model crawls.
NumCategories == 2
\* Largest number of anchors on one listing page.
MaxAnchors == 2
\* Cap on the listing requests of one category (never reached, see FetchCapNotReached).
MaxFetches == 5
\* Largest number of CSVExporter.export_item calls on the file.
MaxCalls == 4
\* Largest number of URLs in the list given to scrape_items.
MaxUrls == 2

-----------------------------------------------------------------------------
(* Text helpers. *)

Upper == << "A","B","C","D","E","F","G","H","I","J","K","L","M",
            "N","O","P","Q","R","S","T","U","V","W","X","Y","Z" >>
LowerLetters == << "a","b","c","d","e","f","g","h","i","j","k","l","m",
                   "n","o","p","q","r","s","t","u","v","w","x","y","z" >>

\* The i-th character of s, as a string of length one.
CharAt(s, i) == SubSeq(s, i, i)

\* str.lower() on one character.
LowerChar(c) ==
    IF \E i \in 1..Len(Upper) : Upper[i] = c
    THEN LowerLetters[CHOOSE i \in 1..Len(Upper) : Upper[i] = c]
    ELSE c

\* str.lower()
RECURSIVE Lower(_)
Lower(s) ==
    IF s = "" THEN "" ELSE LowerChar(CharAt(s, 1)) \o Lower(SubSeq(s, 2, Len(s)))

\* Python's `needle in hay` on strings.
Contains(needle, hay) ==
    \E i \in 0..(Len(hay) - Len(needle)) :
        SubSeq(hay, i + 1, i + Len(needle)) = needle

\* str.startswith
StartsWith(s, prefix) ==
    Len(s) >= Len(prefix) /\ SubSeq(s, 1, Len(prefix)) = prefix

\* The position of the last "/" among the first i characters of s, 0 if none.
RECURSIVE LastSlash(_, _)
LastSlash(s, i) ==
    IF i = 0 THEN 0
    ELSE IF CharAt(s, i) = "/" THEN i ELSE LastSlash(s, i - 1)

\* s.split("/")[-1]: the text after the last "/" (all of s when it has none).
LastSegment(s) == SubSeq(s, LastSlash(s, Len(s)) + 1, Len(s))

\* s.replace("_", " ")
RECURSIVE ReplaceUnderscores(_)
ReplaceUnderscores(s) ==
    IF s = "" THEN ""
    ELSE (IF CharAt(s, 1) = "_" THEN " " ELSE CharAt(s, 1))
         \o ReplaceUnderscores(SubSeq(s, 2, Len(s)))

\* All orders in which the elements of a finite set can be listed.
RECURSIVE Perms(_)
Perms(S) ==
    IF S = {} THEN { <<>> }
    ELSE UNION { { <<x>> \o p : p \in Perms(S \ {x}) } : x \in S }

\* The elements of a sequence, as a set.
Range(s) == { s[i] : i \in 1..Len(s) }

-----------------------------------------------------------------------------
(* Console output.  The module imports `print` from rich (line 14), so every *)
(* print renders its text as console markup: "[name]" opens a style,        *)
(* "[/name]" closes the nearest open style of that name, "[/]" the latest   *)
(* one, and a closing tag that finds nothing to close raises MarkupError.   *)

Digits == << "0", "1", "2", "3", "4", "5", "6", "7", "8", "9" >>

\* str(n) for a natural number n.
RECURSIVE ToStr(_)
ToStr(n) ==
    IF n < 10 THEN Digits[n + 1]
    ELSE ToStr(n \div 10) \o Digits[(n % 10) + 1]

\* str.strip() for spaces.
RECURSIVE Strip(_)
Strip(s) ==
    IF s = "" THEN ""
    ELSE IF CharAt(s, 1) = " " THEN Strip(SubSeq(s, 2, Len(s)))
    ELSE IF CharAt(s, Len(s)) = " " THEN Strip(SubSeq(s, 1, Len(s) - 1))
    ELSE s

\* str.partition("=")[0]: the text before the first "=".
RECURSIVE BeforeEquals(_)
BeforeEquals(s) ==
    IF s = "" THEN ""
    ELSE IF CharAt(s, 1) = "=" THEN ""
    ELSE CharAt(s, 1) \o BeforeEquals(SubSeq(s, 2, Len(s)))

\* The characters a tag can start with (rich.markup.RE_TAGS: [a-z#/@]).
TagStartChars == Range(LowerLetters) \cup { "#", "/", "@" }

\* The number of backslashes right before position i of s.
RECURSIVE BackslashesBefore(_, _)
BackslashesBefore(s, i) ==
    IF i <= 1 THEN 0
    ELSE IF CharAt(s, i - 1) = "\\" THEN 1 + BackslashesBefore(s, i - 1)
    ELSE 0

\* The position of the first "]" or "[" of s at or after position j, 0 if none.
RECURSIVE TagEnd(_, _)
TagEnd(s, j) ==
    IF j > Len(s) THEN 0
    ELSE IF CharAt(s, j) \in { "]", "[" } THEN j
    ELSE TagEnd(s, j + 1)

\* Style.normalize for a name that is no style definition: strip and lower.
Normalize(name) == Lower(Strip(name))

\* The position in the style stack of the topmost entry called name, 0 if none.
TopmostNamed(stack, name) ==
    LET hits == { k \in 1..Len(stack) : stack[k] = name }
    IN  IF hits = {} THEN 0 ELSE CHOOSE k \in hits : \A m \in hits : m <= k

\* The style stack without its k-th entry.
RemoveAt(stack, k) == SubSeq(stack, 1, k - 1) \o SubSeq(stack, k + 1, Len(stack))

\* rich.markup.render from position i of the markup on, with the open styles
\* in `stack`: None when the text renders, else the message of the
\* MarkupError.  A tag is "[", a character of TagStartChars, then the text up
\* to the next "]" with no "[" before it; an odd number of backslashes in
\* front makes it plain text.  Positions in the message count from 0.
RECURSIVE Render(_, _, _)
Render(markup, i, stack) ==
    IF i >= Len(markup) THEN None
    ELSE IF CharAt(markup, i) # "[" THEN Render(markup, i + 1, stack)
    ELSE IF CharAt(markup, i + 1) \notin TagStartChars THEN Render(markup, i + 1, stack)
    ELSE LET j == TagEnd(markup, i + 2)
         IN  IF j = 0 THEN Render(markup, i + 1, stack)
             ELSE IF CharAt(markup, j) # "]" THEN Render(markup, i + 1, stack)
             ELSE IF BackslashesBefore(markup, i) % 2 = 1 THEN Render(markup, j + 1, stack)
             ELSE LET tag_text == SubSeq(markup, i + 1, j - 1)
                      name == BeforeEquals(tag_text)
                      style_name == Normalize(SubSeq(name, 2, Len(name)))
                      k == TopmostNamed(stack, style_name)
                  IN  IF CharAt(name, 1) # "/"
                      THEN Render(markup, j + 1, Append(stack, Normalize(name)))
                      ELSE IF style_name = ""
                      THEN IF stack = << >>
                           THEN Some("closing tag '[/]' at position " \o ToStr(i - 1)
                                     \o " has nothing to close")
                           ELSE Render(markup, j + 1, RemoveAt(stack, Len(stack)))
                      ELSE IF k = 0
                      THEN Some("closing tag '[" \o tag_text \o "]' at position "
                                \o ToStr(i - 1) \o " doesn't match any open tag")
                      ELSE Render(markup, j + 1, RemoveAt(stack, k))

\* rich.print(markup): None when the text is printed, else the message of the
\* MarkupError it raises.
RichPrint(markup) ==
    IF ~Contains("[", markup) THEN None ELSE Render(markup, 1, << >>)

\* The texts the program prints that hold a value of the run.
FoundNewItemText(text) ==
    "[cyan]Found new item:[/cyan] [yellow]" \o text \o "[/yellow]"
ErrorExtractingText(e) == "[red]Error extracting items: " \o e \o "[/red]"
ErrorScrapingText(url, e) == "[red]Error scraping " \o url \o ": " \o e \o "[/red]"
ErrorProcessingText(e) == "[red]Error processing category: " \o e \o "[/red]"
FatalErrorText(e) == "[red]Fatal error: " \o e \o "[/red]"
FatalScrapeItemsText(e) == "[red]Fatal error in scrape_items: " \o e \o "[/red]"
ScrapedText(name) == "[green]Successfully scraped: " \o name \o "[/green]"

-----------------------------------------------------------------------------
(* Program constants. *)

\* main: base_url.
BaseUrl == "https://wiki.project1999.com"

\* crawl_categories: the list `categories`.
categories ==
    << "/Category:Arms",
       "/Category:Back",
       "/Category:Chest",
       "/Category:Ear",
       "/Category:Face",
       "/Category:Feet",
       "/Category:Fingers",
       "/Category:Hands",
       "/Category:Head",
       "/Category:Legs",
       "/Category:Neck",
       "/Category:Shoulders",
       "/Category:Waist",
       "/Category:Wrist",
       "/Category:Ammo",
       "/Category:Primary",
       "/Category:Range",
       "/Category:Secondary" >>

\* A weapon table that lists the damage types before the handedness tokens.
WEAPONS_damage_type_first ==
    << << "piercing", "Piercing" >>,
       << "blunt", "Blunt" >>,
       << "slashing", "Slashing" >>,
       << "1h", "1H_Weapons" >>,
       << "2h", "2H_Weapons" >>,
       << "bow", "Bows" >>,
       << "throwing", "Throwing" >> >>

\* ItemCategories.WEAPONS, in the dict's insertion order: << token, bucket >>.
WEAPONS ==
    << << "1h", "1H_Weapons" >>,
       << "2h", "2H_Weapons" >>,
       << "piercing", "Piercing" >>,
       << "blunt", "Blunt" >>,
       << "slashing", "Slashing" >>,
       << "bow", "Bows" >>,
       << "throwing", "Throwing" >> >>

\* ItemCategories.EQUIPMENT: << slot, bucket >>.
EQUIPMENT ==
    << << "arms", "Arms" >>,
       << "back", "Back" >>,
       << "chest", "Chest" >>,
       << "ear", "Ears" >>,
       << "face", "Face" >>,
       << "feet", "Feet" >>,
       << "fingers", "Fingers" >>,
       << "hands", "Hands" >>,
       << "head", "Head" >>,
       << "legs", "Legs" >>,
       << "neck", "Neck" >>,
       << "shield", "Shields" >>,
       << "shoulders", "Shoulders" >>,
       << "waist", "Waist" >>,
       << "wrist", "Wrist" >> >>

\* Weapon.FIELDS
WeaponFIELDS ==
    << "Name",
       "Type",
       "Damage",
       "Delay",
       "Classes",
       "Races",
       "Skill",
       "Effect",
       "WT",
       "Size",
       "Magic Item",
       "Lore Item",
       "No Drop",
       "30d Avg",
       "90d Avg",
       "All Time Avg" >>

\* Equipment.FIELDS
EquipmentFIELDS ==
    << "Name",
       "Type",
       "AC",
       "Stats",
       "Classes",
       "Races",
       "Effect",
       "WT",
       "Size",
       "Magic Item",
       "Lore Item",
       "No Drop",
       "30d Avg",
       "90d Avg",
       "All Time Avg" >>

\* _determine_item_type: the list `weapon_types`.
weapon_types ==
    << "1h",
       "2h",
       "bow",
       "throwing",
       "piercing",
       "blunt",
       "slashing" >>

\* _extract_category_items: the namespace markers of the href filter.
NamespaceMarkers ==
    << "/Category:",
       "Special:",
       "File:",
       "Discussion:",
       "Help:",
       "User:",
       "Template:",
       "Project:" >>

\* Dictionary keys the code reads by name.
KeyName == "Name"
KeyType == "Type"
KeySlot == "Slot"
KeyDamage == "Damage"
KeyAC == "AC"

\* scrape_category / scrape_items: the marker of the category-page skip.
CategoryMarker == "Category:"

\* _extract_category_items: the pagination query parameter.
PageFrom == "?pagefrom="

-----------------------------------------------------------------------------
(* Items, classification and routing. *)

\* dict.get(key, default)
Get(d, key, default) == IF key \in DOMAIN d THEN d[key] ELSE default

\* Python truthiness of the value returned by _parse_item_data: None and the
\* empty dict are falsy.
TruthyDict(item_data) == item_data.some /\ DOMAIN item_data.val # {}

\* A truthiness that only None fails.
TruthyText_not_none(t) == t.some

\* Python truthiness of an optional string: None and "" are falsy.
TruthyText(t) == t.some /\ t.val # ""

\* any(t in text for t in tokens): the scan from the i-th token on, which
\* stops at the first token found.
RECURSIVE AnyIn(_, _, _)
AnyIn(tokens, text, i) ==
    IF i > Len(tokens) THEN FALSE
    ELSE IF Contains(tokens[i], text) THEN TRUE
    ELSE AnyIn(tokens, text, i + 1)

\* A _determine_item_type that compares the Type as written.
DetermineItemType_case_sensitive(item_data) ==
    IF ~TruthyDict(item_data) THEN "equipment"
    ELSE IF AnyIn(weapon_types, Get(item_data.val, KeyType, ""), 1)
         THEN "weapon" ELSE "equipment"

\* ItemScraper._determine_item_type
DetermineItemType(item_data) ==
    IF ~TruthyDict(item_data) THEN "equipment"
    ELSE LET item_type == Lower(Get(item_data.val, KeyType, ""))
         IN  IF AnyIn(weapon_types, item_type, 1) THEN "weapon" ELSE "equipment"

\* Weapon(name) / Equipment(name) with attributes assigned.
MakeItem(name, item_type, item_data) ==
    [name |-> name, item_type |-> item_type, attributes |-> item_data]

\* Item.to_dict: {"Name": name, **attributes}; a later key replaces an earlier one.
ToDict(item) ==
    [k \in {KeyName} \cup DOMAIN item.attributes |->
        IF k \in DOMAIN item.attributes THEN item.attributes[k] ELSE item.name]

\* _get_category_path, weapon branch: the bucket of the first entry of WEAPONS,
\* in the dict's order, whose token occurs in the lowered Type; else "misc".
WeaponBucket(type_key) ==
    LET hits == {i \in 1..Len(WEAPONS) : Contains(WEAPONS[i][1], type_key)}
    IN  IF hits = {} THEN "misc"
        ELSE WEAPONS[CHOOSE i \in hits : \A j \in hits : i <= j][2]

\* _get_category_path, equipment branch: EQUIPMENT.get(slot, "misc").
EquipmentBucket(slot) ==
    LET hits == {i \in 1..Len(EQUIPMENT) : EQUIPMENT[i][1] = slot}
    IN  IF hits = {} THEN "misc" ELSE EQUIPMENT[CHOOSE i \in hits : TRUE][2]

\* A _get_category_path with one directory for both classes.
GetCategoryPath_one_directory(item) ==
    IF item.item_type = "weapon"
    THEN << "equipment", WeaponBucket(Lower(Get(item.attributes, KeyType, ""))) >>
    ELSE << "equipment", EquipmentBucket(Lower(Get(item.attributes, KeySlot, ""))) >>

\* ItemScraper._get_category_path: << directory, bucket >> stands for
\* output_dir / directory / (bucket + ".csv").
GetCategoryPath(item) ==
    IF item.item_type = "weapon"
    THEN << "weapons", WeaponBucket(Lower(Get(item.attributes, KeyType, ""))) >>
    ELSE << "equipment", EquipmentBucket(Lower(Get(item.attributes, KeySlot, ""))) >>

-----------------------------------------------------------------------------
(* The site: what a listing request and a detail request can answer. *)

\* HTTP status codes the responder uses.
HttpOk == 200
HttpNotFound == 404

\* Hyperlinks a listing page can hold: an item, the same item with empty
\* display text, an item whose name has an underscore, the same item with a
\* display text that holds a closing tag, a category page and a talk page
\* about a category.  (An off-site link is among ProbeAnchors.)
Anchors ==
    { [href |-> "/A", text |-> "A"],
      [href |-> "/A", text |-> ""],
      [href |-> "/B_C", text |-> "B C"],
      [href |-> "/B_C", text |-> "B [/x]"],
      [href |-> "/Category:X", text |-> "X"],
      [href |-> "/Talk:Category:X",
       text |-> "next"] }

\* The content region of a listing page: its anchors in document order.
Pages == UNION { [1..n -> Anchors] : n \in 0..MaxAnchors }

\* The bodies a non-success listing response can carry: none with the content
\* region, or an error page that links to an item.
ErrorPages == { << [href |-> "/B_C", text |-> "B C"] >> }

\* str() of the exceptions session.get can raise: a plain message, and one
\* that holds a closing tag.
ExceptionMessages == { "boom", "boom [/x]" }

\* What session.get gives for a listing request: an exception, or a response
\* with a status and a body that has the content region or lacks it.
ListingResponses ==
    { [kind |-> "exception", status |-> 0, content |-> None, msg |-> m] :
        m \in ExceptionMessages }
    \cup { [kind |-> "response", status |-> HttpOk, content |-> c, msg |-> ""] :
             c \in {None} \cup { Some(pg) : pg \in Pages } }
    \cup { [kind |-> "response", status |-> HttpNotFound, content |-> c, msg |-> ""] :
             c \in {None} \cup { Some(pg) : pg \in ErrorPages } }

\* The anchors of the single-anchor runs: items, the site root, a path with a
\* trailing slash, a category page and an off-site link.
ProbeAnchors ==
    { [href |-> "/A", text |-> "A"],
      [href |-> "/B_C", text |-> "B C"],
      [href |-> "/", text |-> "Main Page"],
      [href |-> "/A/", text |-> "A"],
      [href |-> "/Category:X", text |-> "X"],
      [href |-> "http://e/D", text |-> "D"] }

\* Type cells of the detail pages of the single-anchor runs.
ProbeTypes ==
    { "1H Slashing", "2H Blunt", "Longbow", "Throwing", "Piercing", "PIERCING",
      "Armor", "Shield", "Blunt", "" }

\* Infoboxes of the detail pages of the single-anchor runs: none, one without
\* rows, one without a Type row, and one per Type cell.
ProbeInfoboxes ==
    { None, Some(<< >>), Some(<< << KeySlot, "Head" >> >>) }
    \cup { Some(<< << KeyType, t >> >>) : t \in ProbeTypes }

\* Rows of an infobox: << key cell, value cell >>, already stripped.
InfoboxChoices ==
    { << >>,
      << << KeyType, "1H Slashing" >>,
         << KeyDamage, "7" >> >>,
      << << KeyType, "1H Slashing" >>,
         << KeyDamage, "7" >>,
         << KeyAC, "5" >> >>,
      << << KeySlot, "Head" >>, << KeyAC, "5" >> >> }

\* What session.get gives for a detail request: an exception, or a response
\* of either status whose body has an infobox or lacks it.
DetailResponses ==
    { [kind |-> "exception", status |-> 0, infobox |-> None, msg |-> m] :
        m \in ExceptionMessages }
    \cup { [kind |-> "response", status |-> st, infobox |-> box, msg |-> ""] :
             st \in {HttpOk, HttpNotFound},
             box \in {None} \cup { Some(rows) : rows \in InfoboxChoices } }

\* The URL lists a caller gives to scrape_items: items, a category page, and
\* lists that name a URL twice.
CallerUrls ==
    { BaseUrl \o "/A", BaseUrl \o "/B_C", BaseUrl \o "/Category:X" }
CallerUrlLists == UNION { [1..n -> CallerUrls] : n \in 0..MaxUrls }

\* The hrefs and the display texts of the anchors above, the URLs a run can
\* request a detail page for, and the value cells of the infoboxes.
SiteHrefs == { a.href : a \in Anchors \cup ProbeAnchors }
SiteTexts == { a.text : a \in Anchors \cup ProbeAnchors }
SiteUrls == { BaseUrl \o h : h \in SiteHrefs } \cup CallerUrls
SiteCells ==
    {""} \cup UNION { { box.val[i][2] : i \in 1..Len(box.val) } :
                      box \in { x \in ProbeInfoboxes : x.some }
                               \cup { Some(rows) : rows \in InfoboxChoices } }

-----------------------------------------------------------------------------
(* Export. A file is the sequence of its lines, a line the sequence of its  *)
(* cells.                                                                   *)

\* _get_category_path, with the answers for the Type and Slot cells of the
\* site worked out once.
CategoryPaths ==
    [t \in {"weapon", "equipment"} |-> [ty \in SiteCells |-> [sl \in SiteCells |->
        GetCategoryPath([item_type |-> t,
                         attributes |-> (KeyType :> ty) @@ (KeySlot :> sl)])]]]
CategoryPathOf(item) ==
    LET ty == Get(item.attributes, KeyType, "")
        sl == Get(item.attributes, KeySlot, "")
    IN  IF item.item_type \in {"weapon", "equipment"}
           /\ ty \in SiteCells /\ sl \in SiteCells
        THEN CategoryPaths[item.item_type][ty][sl]
        ELSE GetCategoryPath(item)

\* The `fields` chosen for a group from its first item.
FieldsOf(item) == IF item.item_type = "weapon" THEN WeaponFIELDS ELSE EquipmentFIELDS

\* csv.DictWriter._dict_to_list: the keys of the row dict that are no
\* fieldnames.
WrongFields(fields, rowdict) == DOMAIN rowdict \ Range(fields)

\* csv.DictWriter.writerow raises ValueError when the row dict has a key that
\* is not a fieldname (extrasaction defaults to "raise").
RowRaises(fields, rowdict) == WrongFields(fields, rowdict) # {}

\* ", ".join(repr(x) for x in keys) for keys without quotes or backslashes.
RECURSIVE JoinReprs(_)
JoinReprs(keys) ==
    IF keys = << >> THEN ""
    ELSE "'" \o Head(keys) \o "'"
         \o (IF Len(keys) > 1 THEN ", " ELSE "") \o JoinReprs(Tail(keys))

\* str() of the ValueError of writerow, the wrong fields listed as `keys`.
ValueErrorText(keys) == "dict contains fields not in fieldnames: " \o JoinReprs(keys)

\* csv.DictWriter.writerow: the cells of the row, "" for a missing key.
RowOf(fields, rowdict) == [i \in 1..Len(fields) |-> Get(rowdict, fields[i], "")]

\* _export_items, grouping loop: the destination paths in the order in which
\* the dict `categorized` got them.
RECURSIVE GroupOrder(_)
GroupOrder(batch) ==
    IF batch = << >> THEN << >>
    ELSE LET front == GroupOrder(SubSeq(batch, 1, Len(batch) - 1))
             p == CategoryPathOf(batch[Len(batch)])
         IN  IF p \in Range(front) THEN front ELSE Append(front, p)

\* _export_items, grouping loop: categorized[filepath].
GroupOf(batch, p) == SelectSeq(batch, LAMBDA it : CategoryPathOf(it) = p)

\* _export_items, the `with open(filepath, 'w')` block for one group: the file
\* is truncated, the header is written, then the rows in order until one
\* raises.  The lines that reached the file, whether writerow raised, and
\* the wrong fields of the row that made it raise.
WriteGroup(group) ==
    LET fields == FieldsOf(group[1])
        bad == {i \in 1..Len(group) : RowRaises(fields, ToDict(group[i]))}
        n == IF bad = {} THEN Len(group)
             ELSE (CHOOSE i \in bad : \A j \in bad : i <= j) - 1
    IN  [lines |-> << fields >> \o [i \in 1..n |-> RowOf(fields, ToDict(group[i]))],
         raised |-> bad # {},
         wrong |-> IF bad = {} THEN {} ELSE WrongFields(fields, ToDict(group[n + 1]))]

\* _export_items, export loop from the k-th group on.
RECURSIVE ExportFrom(_, _, _, _)
ExportFrom(fs, batch, order, k) ==
    IF k > Len(order)
    THEN [files |-> fs, raised |-> FALSE, opened |-> order, wrong |-> {}]
    ELSE LET p == order[k]
             w == WriteGroup(GroupOf(batch, p))
             fs2 == [q \in DOMAIN fs \cup {p} |-> IF q = p THEN w.lines ELSE fs[q]]
         IN  IF w.raised
             THEN [files |-> fs2, raised |-> TRUE, opened |-> SubSeq(order, 1, k),
                   wrong |-> w.wrong]
             ELSE ExportFrom(fs2, batch, order, k + 1)

\* ItemScraper._export_items on the directory fs: the directory afterwards,
\* whether the call raised, the paths it opened, and the wrong fields of the
\* row that made it raise.  The line it prints per file (line 144) holds a
\* count and a path built from the bucket tables, and always renders.
ExportItems(fs, batch) == ExportFrom(fs, batch, GroupOrder(batch), 1)

\* The data rows of a file (its lines after the header).
DataRows(lines) == SubSeq(lines, 2, Len(lines))

-----------------------------------------------------------------------------
(* Pagination: ItemScraper._extract_category_items. *)

\* crawl_categories: category_url = self.base_url + category
CategoryUrl(c) == BaseUrl \o categories[c]

\* A request that never carries the cursor.
RequestUrl_bare(c, cursor) == CategoryUrl(c)

\* The URL of the next listing request.
RequestUrl(c, cursor) ==
    IF TruthyText(cursor) THEN CategoryUrl(c) \o PageFrom \o cursor.val
    ELSE CategoryUrl(c)

\* A status test that takes every response for a success.
StatusOk_always(status) == TRUE

\* `response.status_code != 200` is false.
StatusOk(status) == status = HttpOk

\* The href filter: any namespace marker occurs in href.
IsNamespaceLink(href) ==
    \E i \in 1..Len(NamespaceMarkers) : Contains(NamespaceMarkers[i], href)

\* IsNamespaceLink, with the answers for the hrefs of the site worked out once.
NamespaceLinks == { h \in SiteHrefs : IsNamespaceLink(h) }
IsFiltered(href) ==
    IF href \in SiteHrefs THEN href \in NamespaceLinks ELSE IsNamespaceLink(href)

\* The print of line 264 for a new link with display text `text`, with the
\* answers for the texts of the site worked out once.
FoundNewItemPrints == [t \in SiteTexts |-> RichPrint(FoundNewItemText(t))]
PrintFoundNewItem(text) ==
    IF text \in SiteTexts THEN FoundNewItemPrints[text]
    ELSE RichPrint(FoundNewItemText(text))

\* `full_url not in links`
IsNewLink(full_url, ls) == full_url \notin ls

\* `href.startswith("/")`
IsSiteRelative(href) == StartsWith(href, "/")

\* The body of `if href.startswith("/")`: the link is added unless known, and
\* then printed; a print that raises leaves the flags of the page as they
\* were.
AddLink(prev, full_url, text) ==
    IF IsNewLink(full_url, prev.links)
    THEN LET printed == PrintFoundNewItem(text)
         IN  IF printed.some
             THEN [prev EXCEPT !.links = @ \cup {full_url}, !.error = printed]
             ELSE [links |-> prev.links \cup {full_url},
                   found_items |-> TRUE,
                   last_item_this_page |-> Some(text),
                   repeated |-> prev.repeated,
                   error |-> None]
    ELSE [prev EXCEPT !.repeated = TRUE]

\* The body of the loop over the anchors of one page, for anchor a; after an
\* exception no further anchor is looked at.
ExtractAnchor(prev, a) ==
    IF prev.error.some THEN prev
    ELSE IF IsFiltered(a.href) THEN prev
    ELSE IF IsSiteRelative(a.href)
         THEN AddLink(prev, BaseUrl \o a.href, a.text)
         ELSE prev

\* The loop over the anchors of one page, after its first n anchors.
RECURSIVE ExtractPage(_, _, _)
ExtractPage(page, n, ls) ==
    IF n = 0
    THEN [links |-> ls, found_items |-> FALSE, last_item_this_page |-> None,
          repeated |-> FALSE, error |-> None]
    ELSE ExtractAnchor(ExtractPage(page, n - 1, ls), page[n])

\* The end of one pass of the `while True` loop, e being what the loop over
\* the anchors left: an exception goes to the handler; else `if not
\* found_items: break`, the cursor, `if not last_item: break`.
Decide(e, cursor) ==
    IF e.error.some
    THEN [links |-> e.links, last_item |-> cursor, to |-> "raised",
          repeated |-> e.repeated, error |-> e.error]
    ELSE IF ~e.found_items
    THEN [links |-> e.links, last_item |-> cursor, to |-> "paged",
          repeated |-> e.repeated, error |-> None]
    ELSE [links |-> e.links, last_item |-> e.last_item_this_page,
          to |-> IF TruthyText(e.last_item_this_page) THEN "fetch" ELSE "paged",
          repeated |-> e.repeated, error |-> None]

\* One pass of the `while True` loop on response resp: the set `links` and
\* the cursor afterwards, where control goes: "fetch" (next pass), "paged"
\* (a break: return list(links)) or "raised" (the except handler, `error`
\* being str() of the exception), and whether the page held a link that was
\* already in `links`.
PaginateStep(ls, cursor, resp) ==
    IF resp.kind = "exception"
    THEN [links |-> ls, last_item |-> cursor, to |-> "raised", repeated |-> FALSE,
          error |-> Some(resp.msg)]
    ELSE IF ~StatusOk(resp.status) \/ ~resp.content.some
    THEN [links |-> ls, last_item |-> cursor, to |-> "paged", repeated |-> FALSE,
          error |-> None]
    ELSE Decide(ExtractPage(resp.content.val, Len(resp.content.val), ls), cursor)

\* A conversion that may list every element of the set twice.
ListOf_per_request(ls) ==
    { p \o p : p \in Perms(ls) } \cup Perms(ls)

\* `list(links)`: the elements of the set in some order.
ListOf(ls) == Perms(ls)

-----------------------------------------------------------------------------
(* Exception handlers.  Each prints str() of the exception inside its own   *)
(* markup; when that print raises, the MarkupError leaves the handler and   *)
(* reaches the next try block outwards.  `to` is where control goes and     *)
(* `uncaught` the message of the exception that no handler held.            *)

\* The text of traceback.format_exc(): source lines, which hold no closing
\* tag without its opening tag, and at the end str() of the exception.
TracebackText(e) == "Traceback (most recent call last):\n" \o e

\* Control goes on at `to`; nothing is raised.
GoOn(to) == [to |-> to, uncaught |-> None]

\* main, lines 367-371: prints the message and the traceback and returns 1;
\* an exception raised in the handler ends main.
MainHandler(e) ==
    LET fatal == RichPrint(FatalErrorText(e))
        trace == RichPrint(TracebackText(e))
    IN  IF fatal.some THEN [to |-> "uncaught", uncaught |-> fatal]
        ELSE IF trace.some THEN [to |-> "uncaught", uncaught |-> trace]
        ELSE GoOn("failed")

\* scrape_category, lines 317-319: prints and returns []; crawl_categories
\* has no handler, so what this one raises reaches main's.
CategoryHandler(e) ==
    LET printed == RichPrint(ErrorProcessingText(e))
    IN  IF printed.some THEN MainHandler(printed.val) ELSE GoOn("return")

\* _extract_category_items, lines 279-281: prints and returns [].
ExtractHandler(e) ==
    LET printed == RichPrint(ErrorExtractingText(e))
    IN  IF printed.some THEN CategoryHandler(printed.val) ELSE GoOn("returned")

\* scrape_category, lines 306-308: prints, appends the URL to failed_items
\* and the loop goes on.
UrlHandler(url, e) ==
    LET printed == RichPrint(ErrorScrapingText(url, e))
    IN  IF printed.some THEN CategoryHandler(printed.val) ELSE GoOn("scrape")

\* scrape_items, lines 172-176: prints the message and the traceback and
\* returns []; an exception raised in the handler reaches the caller.
ItemsHandler(e) ==
    LET fatal == RichPrint(FatalScrapeItemsText(e))
        trace == RichPrint(TracebackText(e))
    IN  IF fatal.some THEN [to |-> "items_raised", uncaught |-> fatal]
        ELSE IF trace.some THEN [to |-> "items_raised", uncaught |-> trace]
        ELSE GoOn("items_done")

\* scrape_items, lines 160-162: prints, appends the URL to failed_items and
\* the loop goes on.
ItemsUrlHandler(url, e) ==
    LET printed == RichPrint(ErrorScrapingText(url, e))
    IN  IF printed.some THEN ItemsHandler(printed.val) ELSE GoOn("items")

\* ExtractHandler, with the answers worked out once for the exceptions the
\* site can raise in _extract_category_items: those of session.get and those
\* of the print of line 264.
ExtractErrors ==
    ExceptionMessages
    \cup { FoundNewItemPrints[t].val :
             t \in { x \in SiteTexts : FoundNewItemPrints[x].some } }
ExtractHandled == [e \in ExtractErrors |-> ExtractHandler(e)]
ExtractHandlerOn(e) ==
    IF e \in ExtractErrors THEN ExtractHandled[e] ELSE ExtractHandler(e)

-----------------------------------------------------------------------------
(* Detail pages: _parse_item_data and scrape_item_page. *)

\* The dict built from the two-cell rows of the infobox; a later row with the
\* same key replaces the earlier one.
RowsToDict(rows) ==
    [k \in { rows[i][1] : i \in 1..Len(rows) } |->
        rows[CHOOSE i \in 1..Len(rows) :
                /\ rows[i][1] = k
                /\ \A j \in 1..Len(rows) : rows[j][1] = k => j <= i][2]]

\* ItemScraper._parse_item_data: None when the page has no infobox.
ParseItemData(infobox) ==
    IF ~infobox.some THEN None ELSE Some(RowsToDict(infobox.val))

\* scrape_item_page: name = url.split("/")[-1].replace("_", " ")
ItemName(url) == ReplaceUnderscores(LastSegment(url))

\* A scrape_item_page that lets the missing infobox raise.
ScrapeItemPage_raising(url, resp) ==
    IF resp.kind = "exception"
    THEN [error |-> RichPrint(ErrorScrapingText(url, resp.msg)), item |-> None]
    ELSE LET item_data == ParseItemData(resp.infobox)
         IN  IF ~item_data.some
             THEN [error |-> Some("no infobox"), item |-> None]
             ELSE IF ~TruthyDict(item_data)
             THEN [error |-> None, item |-> None]
             ELSE [error |-> None,
                   item |-> Some(MakeItem(ItemName(url),
                                          DetermineItemType(item_data),
                                          item_data.val))]

\* ItemScraper.scrape_item_page: the item, or None; the status of the
\* response is never read.  The handler (lines 195-197) prints the exception
\* of the request and returns None; `error` is the message of the
\* MarkupError that leaves the method when that print raises, else None.
ScrapeItemPage(url, resp) ==
    IF resp.kind = "exception"
    THEN [error |-> RichPrint(ErrorScrapingText(url, resp.msg)), item |-> None]
    ELSE LET item_data == ParseItemData(resp.infobox)
         IN  IF ~TruthyDict(item_data)
             THEN [error |-> None, item |-> None]
             ELSE [error |-> None,
                   item |-> Some(MakeItem(ItemName(url),
                                          DetermineItemType(item_data),
                                          item_data.val))]

\* `"Category:" in url`, with the answers for the URLs of the site worked
\* out once.
CategoryPages == { u \in SiteUrls : Contains(CategoryMarker, u) }
IsCategoryPage(url) ==
    IF url \in SiteUrls THEN url \in CategoryPages ELSE Contains(CategoryMarker, url)

\* scrape_item_page on url and resp, with the answers for the URLs and the
\* responses of the site worked out once.
ScrapedPages == [u \in SiteUrls |-> [r \in DetailResponses |-> ScrapeItemPage(u, r)]]
ScrapeItemPageOn(url, resp) ==
    IF url \in SiteUrls /\ resp \in DetailResponses THEN ScrapedPages[url][resp]
    ELSE ScrapeItemPage(url, resp)

\* UrlHandler on what leaves scrape_item_page, with the answers for the URLs
\* and the responses of the site worked out once.
UrlHandled ==
    [u \in SiteUrls |-> [r \in DetailResponses |->
        IF ScrapedPages[u][r].error.some
        THEN UrlHandler(u, ScrapedPages[u][r].error.val)
        ELSE GoOn("scrape")]]
UrlHandlerOn(url, resp, e) ==
    IF url \in SiteUrls /\ resp \in DetailResponses THEN UrlHandled[url][resp]
    ELSE UrlHandler(url, e)

\* `if item and item.attributes`
IsValidItem(item) == item.some /\ DOMAIN item.val.attributes # {}

\* What is kept of a detail request: its URL and what session.get gave.
DetailOf(url, resp) ==
    Some([url |-> url, kind |-> resp.kind, status |-> resp.status,
          infobox |-> resp.infobox.some])

-----------------------------------------------------------------------------
(* The runs: main's crawl over the category list, and scrape_items on a    *)
(* list of URLs.                                                            *)

\* The scraper after ItemScraper.__init__, before any of its methods ran.
Constructed ==
    /\ cat = 1
    /\ pc = "new"
    /\ links = {}
    /\ last_item = None
    /\ requests = 0
    /\ response = None
    /\ urls = << >>
    /\ idx = 1
    /\ items = << >>
    /\ fetched = << >>
    /\ detail = None
    /\ failed_items = << >>
    /\ files = << >>
    /\ prevFiles = << >>
    /\ exportState = "none"
    /\ writers = << >>
    /\ processed = << >>
    /\ all_items = << >>
    /\ report = None
    /\ uncaught = None

\* A constructed scraper; no single call is made.
Init ==
    /\ Constructed
    /\ probe = None
    /\ probed = None
    /\ calls = << >>
    /\ csvfile = None

\* Whether a listing page of this pagination held a link already in `links`.
SeenAgain == response.some /\ response.val.repeated

\* main calls crawl_categories, which takes the first category.
StartCrawl ==
    /\ pc = "new"
    /\ pc' = "fetch"
    /\ UNCHANGED << cat, links, last_item, requests, response, urls, idx, items,
                    fetched, detail, failed_items, files, prevFiles, exportState,
                    writers, processed, all_items, report, uncaught >>
    /\ UNCHANGED single

\* _extract_category_items: one pass of the `while True` loop; an exception
\* takes the handlers, of which the first makes the method return [].
ListingFetch ==
    /\ pc = "fetch"
    /\ requests < MaxFetches
    /\ requests' = requests + 1
    /\ \E url \in { RequestUrl(cat, last_item) }, resp \in ListingResponses :
        \E r \in { PaginateStep(links, last_item, resp) } :
          \E h \in { IF r.to = "raised" THEN ExtractHandlerOn(r.error.val)
                     ELSE GoOn(r.to) } :
            /\ response' = Some([url |-> url,
                                 kind |-> resp.kind,
                                 status |-> resp.status,
                                 raised |-> r.to = "raised",
                                 before |-> links,
                                 after |-> r.links,
                                 repeated |-> r.repeated \/ SeenAgain])
            /\ links' = r.links
            /\ last_item' = r.last_item
            /\ pc' = h.to
            /\ uncaught' = h.uncaught
    /\ urls' = << >>
    /\ UNCHANGED << cat, idx, items, fetched, detail, failed_items, files, prevFiles,
                    exportState, writers, processed, all_items, report >>
    /\ UNCHANGED single

\* _extract_category_items: `return list(links)` after a break.
PaginateReturn ==
    /\ pc = "paged"
    /\ \E order \in ListOf(links) : urls' = order
    /\ pc' = "returned"
    /\ UNCHANGED << cat, links, last_item, requests, response, idx, items, fetched,
                    detail, failed_items, files, prevFiles, exportState, writers,
                    processed, all_items, report, uncaught >>
    /\ UNCHANGED single

\* scrape_category: `if not urls: return []`, else the loop over urls starts.
\* The locals of _extract_category_items are gone.
BeginScrape ==
    /\ pc = "returned"
    /\ pc' = IF urls = << >> THEN "return" ELSE "scrape"
    /\ idx' = 1
    /\ items' = << >>
    /\ last_item' = None
    /\ requests' = 0
    /\ response' = None
    /\ UNCHANGED << cat, links, urls, fetched, detail, failed_items, files, prevFiles,
                    exportState, writers, processed, all_items, report, uncaught >>
    /\ UNCHANGED single

\* scrape_category: one pass of the loop over urls for a category page URL.
SkipCategoryPage ==
    /\ pc = "scrape"
    /\ idx <= Len(urls)
    /\ IsCategoryPage(urls[idx])
    /\ idx' = idx + 1
    /\ UNCHANGED << cat, pc, links, last_item, requests, response, urls, items, fetched,
                    detail, failed_items, files, prevFiles, exportState, writers,
                    processed, all_items, report, uncaught >>
    /\ UNCHANGED single

\* scrape_category: one pass of the loop over urls for a detail URL.  An
\* exception that leaves scrape_item_page takes the handler of the loop.
ScrapeUrl ==
    /\ pc = "scrape"
    /\ idx <= Len(urls)
    /\ ~IsCategoryPage(urls[idx])
    /\ \E resp \in DetailResponses :
        \E url \in { urls[idx] }, r \in { ScrapeItemPageOn(urls[idx], resp) } :
          \E h \in { IF r.error.some THEN UrlHandlerOn(url, resp, r.error.val)
                     ELSE GoOn("scrape") } :
            /\ fetched' = Append(fetched, url)
            /\ detail' = DetailOf(url, resp)
            /\ failed_items' = IF r.error.some /\ h.to = "scrape"
                               THEN Append(failed_items, url)
                               ELSE failed_items
            /\ items' = IF h.to = "return" THEN << >>
                        ELSE IF IsValidItem(r.item) THEN Append(items, r.item.val)
                        ELSE items
            /\ idx' = IF h.to = "scrape" THEN idx + 1 ELSE idx
            /\ pc' = h.to
            /\ uncaught' = h.uncaught
    /\ UNCHANGED << cat, links, last_item, requests, response, urls, files, prevFiles,
                    exportState, writers, processed, all_items, report >>
    /\ UNCHANGED single

\* scrape_category: `if items: self._export_items(items)`.  A ValueError of
\* the export takes the handler of scrape_category, which returns [].
ExportCategory ==
    /\ pc = "scrape"
    /\ idx > Len(urls)
    /\ IF items # << >>
       THEN \E r \in { ExportItems(files, items) } :
              \E keys \in Perms(r.wrong) :
                \E h \in { IF r.raised THEN CategoryHandler(ValueErrorText(keys))
                           ELSE GoOn("return") } :
                  /\ files' = r.files
                  /\ prevFiles' = files
                  /\ exportState' = IF r.raised THEN "raised" ELSE "ok"
                  /\ writers' = [q \in DOMAIN writers \cup Range(r.opened) |->
                                   (IF q \in DOMAIN writers THEN writers[q] ELSE {})
                                   \cup (IF q \in Range(r.opened) THEN {cat} ELSE {})]
                  /\ pc' = h.to
                  /\ uncaught' = h.uncaught
       ELSE /\ pc' = "return"
            /\ UNCHANGED << files, prevFiles, exportState, writers, uncaught >>
    /\ UNCHANGED << cat, links, last_item, requests, response, urls, idx, items, fetched,
                    detail, failed_items, processed, all_items, report >>
    /\ UNCHANGED single

\* scrape_category returns (items, or [] from a handler) and crawl_categories
\* extends all_items and takes the next category.
ReturnCategory ==
    /\ pc = "return"
    /\ all_items' = all_items \o (IF exportState = "raised" THEN << >> ELSE items)
    /\ processed' = Append(processed, cat)
    /\ cat' = cat + 1
    /\ pc' = IF cat >= NumCategories THEN "report" ELSE "fetch"
    /\ links' = {}
    /\ last_item' = None
    /\ requests' = 0
    /\ response' = None
    /\ urls' = << >>
    /\ idx' = 1
    /\ items' = << >>
    /\ fetched' = << >>
    /\ detail' = None
    /\ prevFiles' = << >>
    /\ exportState' = "none"
    /\ UNCHANGED << failed_items, files, writers, report, uncaught >>
    /\ UNCHANGED single

\* main: the report after crawl_categories has returned.
Report ==
    /\ pc = "report"
    /\ report' = Some([processed |-> Len(all_items), failed |-> Len(failed_items)])
    /\ pc' = "done"
    /\ UNCHANGED << cat, links, last_item, requests, response, urls, idx, items, fetched,
                    detail, failed_items, files, prevFiles, exportState, writers,
                    processed, all_items, uncaught >>
    /\ UNCHANGED single

\* A caller gives scrape_items a list of URLs.
ItemsStart ==
    /\ pc = "new"
    /\ \E list \in CallerUrlLists : urls' = list
    /\ pc' = "items"
    /\ UNCHANGED << cat, links, last_item, requests, response, idx, items, fetched,
                    detail, failed_items, files, prevFiles, exportState, writers,
                    processed, all_items, report, uncaught >>
    /\ UNCHANGED single

\* scrape_items: one pass of the loop over urls for a category page URL.
ItemsSkipCategoryPage ==
    /\ pc = "items"
    /\ idx <= Len(urls)
    /\ IsCategoryPage(urls[idx])
    /\ idx' = idx + 1
    /\ UNCHANGED << cat, pc, links, last_item, requests, response, urls, items, fetched,
                    detail, failed_items, files, prevFiles, exportState, writers,
                    processed, all_items, report, uncaught >>
    /\ UNCHANGED single

\* scrape_items: one pass of the loop over urls for a detail URL.  A valid
\* item is appended and its name printed; an exception of scrape_item_page
\* or of that print takes the handler of the loop.
ItemsScrapeUrl ==
    /\ pc = "items"
    /\ idx <= Len(urls)
    /\ ~IsCategoryPage(urls[idx])
    /\ \E resp \in DetailResponses :
        \E url \in { urls[idx] }, r \in { ScrapeItemPageOn(urls[idx], resp) } :
          \E e \in { IF r.error.some THEN r.error
                     ELSE IF IsValidItem(r.item)
                          THEN RichPrint(ScrapedText(r.item.val.name))
                          ELSE None } :
            \E h \in { IF e.some THEN ItemsUrlHandler(url, e.val) ELSE GoOn("items") } :
              /\ fetched' = Append(fetched, url)
              /\ detail' = DetailOf(url, resp)
              /\ failed_items' = IF e.some /\ h.to = "items"
                                 THEN Append(failed_items, url)
                                 ELSE failed_items
              /\ items' = IF h.to = "items_done" THEN << >>
                          ELSE IF IsValidItem(r.item) THEN Append(items, r.item.val)
                          ELSE items
              /\ idx' = IF h.to = "items" THEN idx + 1 ELSE idx
              /\ pc' = h.to
              /\ uncaught' = h.uncaught
    /\ UNCHANGED << cat, links, last_item, requests, response, urls, files, prevFiles,
                    exportState, writers, processed, all_items, report >>
    /\ UNCHANGED single

\* scrape_items: `if items: self._export_items(items)`, then `return items`.
\* A ValueError of the export takes the handler of scrape_items, which
\* returns [].
ItemsExport ==
    /\ pc = "items"
    /\ idx > Len(urls)
    /\ IF items # << >>
       THEN \E r \in { ExportItems(files, items) } :
              \E keys \in Perms(r.wrong) :
                \E h \in { IF r.raised THEN ItemsHandler(ValueErrorText(keys))
                           ELSE GoOn("items_done") } :
                  /\ files' = r.files
                  /\ prevFiles' = files
                  /\ exportState' = IF r.raised THEN "raised" ELSE "ok"
                  /\ pc' = h.to
                  /\ uncaught' = h.uncaught
       ELSE /\ pc' = "items_done"
            /\ UNCHANGED << files, prevFiles, exportState, uncaught >>
    /\ UNCHANGED << cat, links, last_item, requests, response, urls, idx, items, fetched,
                    detail, failed_items, writers, processed, all_items, report >>
    /\ UNCHANGED single

\* The list scrape_items has returned: items, or [] from its handler.
ScrapeItemsResult == IF exportState = "raised" THEN << >> ELSE items

Next ==
    \/ StartCrawl
    \/ ListingFetch
    \/ PaginateReturn
    \/ BeginScrape
    \/ SkipCategoryPage
    \/ ScrapeUrl
    \/ ExportCategory
    \/ ReturnCategory
    \/ Report
    \/ ItemsStart
    \/ ItemsSkipCategoryPage
    \/ ItemsScrapeUrl
    \/ ItemsExport

Spec == Init /\ [][Next]_vars

\* The pagination of the categories alone: the steps of
\* _extract_category_items, and the crawl's move to the next category when
\* a pagination returned nothing.  The program is sequential and always takes
\* its next step.
PaginationNext ==
    \/ StartCrawl
    \/ ListingFetch
    \/ PaginateReturn
    \/ BeginScrape
    \/ ReturnCategory

PaginationSpec == Init /\ [][PaginationNext]_vars /\ WF_vars(PaginationNext)

-----------------------------------------------------------------------------
(* Single-anchor runs: the extraction loop on a listing page with one anchor *)
(* and scrape_item_page on the page of the link it yields.                  *)

DetailInit ==
    /\ Constructed
    /\ \E a \in ProbeAnchors, box \in ProbeInfoboxes :
          probe = Some([anchor |-> a, infobox |-> box])
    /\ probed = None
    /\ calls = << >>
    /\ csvfile = None

\* _extract_category_items, the loop over the anchors of the page.
ProbeExtract ==
    /\ probe.some
    /\ probed = None
    /\ probed' = Some([links |-> ExtractPage(<< probe.val.anchor >>, 1, {}).links,
                       scraped |-> FALSE,
                       item_type |-> "",
                       item |-> None])
    /\ UNCHANGED << crawl, probe, calls, csvfile >>

\* scrape_item_page on the link found, and _determine_item_type on the data
\* of its page.
ProbeScrape ==
    /\ probed.some
    /\ ~probed.val.scraped
    /\ \E url \in probed.val.links :
          probed' = Some([links |-> probed.val.links,
                          scraped |-> TRUE,
                          item_type |-> DetermineItemType(ParseItemData(probe.val.infobox)),
                          item |-> ScrapeItemPage(url,
                                      [kind |-> "response", status |-> HttpOk,
                                       infobox |-> probe.val.infobox,
                                       msg |-> ""]).item])
    /\ UNCHANGED << crawl, probe, calls, csvfile >>

DetailNext == ProbeExtract \/ ProbeScrape

DetailSpec == DetailInit /\ [][DetailNext]_vars

-----------------------------------------------------------------------------
(* Append mode: CSVExporter.export_item (src/src/exporters.py) on one file, *)
(* with the item classes of src/src/models.py.                              *)

\* models.Weapon.FIELDS
ModelsWeaponFIELDS ==
    << "Name", "Type", "Damage", "Delay", "Stats", "Classes", "Races", "Effect",
       "WT", "Size", "Slot", "Magic Item", "Lore Item", "No Drop", "30d Avg",
       "90d Avg", "All Time Avg" >>

\* models.Equipment.FIELDS
ModelsEquipmentFIELDS ==
    << "Name", "Type", "Slot", "AC", "Stats", "Classes", "Races", "Effect",
       "WT", "Size", "Magic Item", "Lore Item", "No Drop", "30d Avg",
       "90d Avg", "All Time Avg" >>

\* item.__class__.FIELDS
ClassFIELDS(item) ==
    IF item.item_type = "weapon" THEN ModelsWeaponFIELDS ELSE ModelsEquipmentFIELDS

\* filepath.stat().st_size == 0: the file holds no line.
IsEmptyFile(lines) == Len(lines) = 0

\* CSVExporter.export_item on the file f (None while absent): open("a")
\* creates the file, the header is written when the file is empty, then the
\* row, unless writerow raises.  The file afterwards, and whether it raised.
ExportItem(f, item) ==
    LET fields == ClassFIELDS(item)
        opened == IF f.some THEN f.val ELSE << >>
        headed == IF IsEmptyFile(opened) THEN Append(opened, fields) ELSE opened
    IN  IF RowRaises(fields, ToDict(item))
        THEN [file |-> Some(headed), raised |-> TRUE]
        ELSE [file |-> Some(Append(headed, RowOf(fields, ToDict(item)))),
              raised |-> FALSE]

\* The items given to export_item: a weapon, an equipment with a Slot, and a
\* weapon with an AC attribute.
AppendItems ==
    { MakeItem("A", "weapon", RowsToDict(<< << KeyType, "1H Slashing" >>,
                                            << KeyDamage, "7" >> >>)),
      MakeItem("B C", "equipment", RowsToDict(<< << KeySlot, "Head" >>,
                                                << KeyAC, "5" >> >>)),
      MakeItem("A", "weapon", RowsToDict(<< << KeyType, "1H Slashing" >>,
                                            << KeyDamage, "7" >>,
                                            << KeyAC, "5" >> >>)) }

\* The file starts absent or empty.
AppendInit ==
    /\ Constructed
    /\ probe = None
    /\ probed = None
    /\ calls = << >>
    /\ csvfile \in { None, Some(<< >>) }

\* One call of export_item; an exception it raises reaches the caller, who
\* may call again.
AppendExport ==
    /\ Len(calls) < MaxCalls
    /\ \E item \in AppendItems :
          /\ calls' = Append(calls, item)
          /\ csvfile' = ExportItem(csvfile, item).file
    /\ UNCHANGED << crawl, probe, probed >>

AppendNext == AppendExport

AppendSpec == AppendInit /\ [][AppendNext]_vars

-----------------------------------------------------------------------------
(* Properties. *)

\* The cap on the listing requests never stops a request.
FetchCapNotReached == pc = "fetch" => requests < MaxFetches

\* Whether the run is one of scrape_items on a caller-given list.
ItemsRun == pc \in {"items", "items_done", "items_raised"}

\* C1. Pagination terminates: every listing request that leaves the loop
\* running found at least one link that no earlier request had found, so over
\* the finitely many links of the site the loop of every category eventually
\* leaves its Fetch state and the method returns.
PaginationTerminates ==
    /\ [](pc = "fetch" => requests <= Cardinality(links))
    /\ [](pc = "fetch" => requests < MaxFetches)
    /\ \A c \in 1..NumCategories :
          (cat = c /\ pc = "fetch") ~> (cat = c /\ pc = "returned")

\* A list without a repeated element.
NoDuplicates(seq) == \A i, j \in 1..Len(seq) : seq[i] = seq[j] => i = j

\* C2. Deduplication: the list _extract_category_items returns holds every
\* discovered URL exactly once, however often the listing pages showed it, and
\* scrape_category requests no detail URL twice within a category.
Deduplication ==
    ~ItemsRun =>
        /\ NoDuplicates(urls)
        /\ Range(urls) \subseteq links
        /\ (pc \in {"returned", "scrape"} /\ urls # << >>) => Range(urls) = links
        /\ NoDuplicates(fetched)
        /\ Range(fetched) \subseteq Range(urls)

\* A pagination returned two URLs after a listing page had shown a link that
\* was already known.
DeduplicationWitness ==
    /\ pc = "returned"
    /\ SeenAgain
    /\ Len(urls) = 2

\* C3. Each destination file is opened by the export of at most one category
\* during the run.
OneExportPerFile ==
    \A path \in DOMAIN writers : Cardinality(writers[path]) <= 1

\* The items of `batch` routed to `path`.
RoutedTo(batch, path) == { i \in 1..Len(batch) : CategoryPathOf(batch[i]) = path }

\* The data rows of the files at the paths of `order`, added up.
RECURSIVE DataRowTotal(_, _)
DataRowTotal(fs, order) ==
    IF order = << >> THEN 0
    ELSE (IF Head(order) \in DOMAIN fs THEN Len(DataRows(fs[Head(order)])) ELSE 0)
         + DataRowTotal(fs, Tail(order))

\* C4. After _export_items every destination of the batch holds as many data
\* rows as the batch has records routed to it, and the data rows of the
\* destinations add up to the batch size.
ExportRowCounts ==
    (pc = "return" /\ exportState # "none") =>
        /\ \A path \in Range(GroupOrder(items)) :
              /\ path \in DOMAIN files
              /\ Len(DataRows(files[path])) = Cardinality(RoutedTo(items, path))
        /\ DataRowTotal(files, GroupOrder(items)) = Len(items)

\* The latest detail request got a non-success response or a transport error.
DetailFailed ==
    detail.some /\ (detail.val.kind = "exception" \/ ~StatusOk(detail.val.status))

\* C5. FetchFailure: a detail URL whose request failed (non-success response
\* or transport error) is in failed_items, in scrape_category and in
\* scrape_items alike, the loop goes on with the next URL, and the report
\* counts the failures.
FetchFailureRecorded ==
    /\ DetailFailed => detail.val.url \in Range(failed_items)
    /\ DetailFailed => pc \notin {"uncaught", "items_raised"}
    /\ report.some => report.val.failed = Len(failed_items)

\* The attributes of the example record.
ExampleAttributes == RowsToDict(<< << KeyType, "1H Slashing" >>, << KeyDamage, "7" >> >>)

\* The items of the current batch that carry exactly the example's attributes.
ExampleItems == { i \in 1..Len(items) : items[i].attributes = ExampleAttributes }

\* C6 as stated: the example record is a Weapon routed to weapons/Slashing.csv.
ExampleRoutedToSlashing ==
    \A i \in ExampleItems :
        /\ items[i].item_type = "weapon"
        /\ CategoryPathOf(items[i]) = << "weapons", "Slashing" >>

\* C6. The record with attributes {"Type": "1H Slashing", "Damage": "7"} is a
\* Weapon and is routed to the bucket 1H_Weapons (file weapons/1H_Weapons.csv):
\* "1h" is the first token of WEAPONS that occurs in its lowered Type.
ExampleRoutedTo1HWeapons ==
    \A i \in ExampleItems :
        /\ items[i].item_type = "weapon"
        /\ CategoryPathOf(items[i]) = << "weapons", "1H_Weapons" >>
        /\ (pc = "return" /\ exportState = "ok") =>
              /\ << "weapons", "1H_Weapons" >> \in DOMAIN files
              /\ << "weapons", "Slashing" >> \notin DOMAIN files

\* The example record was scraped and its batch exported.
ExampleRoutedWitness ==
    /\ pc = "return"
    /\ exportState = "ok"
    /\ ExampleItems # {}
    /\ Len(files[<< "weapons", "1H_Weapons" >>]) >= 2

\* The file _export_items is to leave at `path` for `batch`: the header and
\* the rows of the batch routed to it.
WholeFile(batch, path) ==
    LET group == GroupOf(batch, path)
        fields == FieldsOf(group[1])
    IN  << fields >> \o [i \in 1..Len(group) |-> RowOf(fields, ToDict(group[i]))]

\* C7. Whole-file replace: a destination that held rows before the export
\* holds afterwards one header and exactly the rows of the current batch
\* routed to it, and exporting the batch again changes nothing.
WholeFileReplace ==
    (pc = "return" /\ exportState # "none") =>
        /\ \A path \in Range(GroupOrder(items)) \cap DOMAIN prevFiles :
              files[path] = WholeFile(items, path)
        /\ ExportItems(files, items).files = files

\* The category pages among the first n URLs of the list.
SkippedBefore(n) == { k \in 1..n : IsCategoryPage(urls[k]) }

\* C8. Failure isolation: the categories are taken in list order and each of
\* them returns, whatever went wrong before; control never reaches a state
\* other than the crawl's own and never stops before the report; inside a
\* category every URL of the list gets its pass of the loop, also after a
\* failed request.
FailureIsolation ==
    /\ ~ItemsRun =>
          pc \in {"new", "fetch", "paged", "returned", "scrape", "return", "report", "done"}
    /\ processed = [i \in 1..(cat - 1) |-> i]
    /\ (pc \in {"report", "done"}) <=> (cat = NumCategories + 1)
    /\ (pc \in {"scrape", "return"} /\ urls # << >>) =>
          /\ Len(fetched) + Cardinality(SkippedBefore(idx - 1)) = idx - 1
          /\ pc = "return" => idx = Len(urls) + 1
    /\ pc = "scrape" => idx \in 1..(Len(urls) + 1)
    /\ pc = "fetch" => requests < MaxFetches

\* The latest detail request got a page without infobox.
DetailMiss(d) == d.some /\ d.val.kind = "response" /\ ~d.val.infobox

\* C9. ParseMiss: a detail page without infobox makes _parse_item_data return
\* None; the pass of the loop for it adds nothing to items, to failed_items or
\* to the files, the loop goes on, and the batch of the category holds no
\* item of that URL.
ParseMissSkipped ==
    /\ ParseItemData(None) = None
    /\ [](DetailMiss(detail) =>
            /\ detail.val.url \notin Range(failed_items)
            /\ ~ItemsRun =>
                  \A k \in 1..Len(items) : items[k].name # ItemName(detail.val.url))
    /\ [][(Len(fetched') > Len(fetched) /\ DetailMiss(detail')) =>
            /\ items' = items
            /\ failed_items' = failed_items
            /\ files' = files
            /\ pc' = pc
            /\ idx' = idx + 1]_vars

\* A category with a page with an infobox and then a page without one has
\* exported its batch of one item.
ParseMissSkippedWitness ==
    /\ pc = "return"
    /\ exportState = "ok"
    /\ Len(items) = 1
    /\ Len(fetched) = 2
    /\ DetailMiss(detail)
    /\ failed_items = << >>

\* C10. ListingFailure: a listing response with a status other than 200 adds
\* no link and ends the loop at once; the method then returns, without any
\* further request, exactly the links found before that response.
ListingFailureReturns ==
    /\ [][(pc = "fetch" /\ response'.some /\ response'.val.kind = "response"
              /\ response'.val.status # HttpOk) =>
            /\ pc' = "paged"
            /\ links' = links
            /\ response'.val.before = links]_vars
    /\ [][pc = "paged" =>
            /\ pc' = "returned"
            /\ requests' = requests
            /\ response' = response
            /\ Range(urls') = links
            /\ Len(urls') = Cardinality(links)]_vars
    /\ [][pc = "returned" => requests' = 0]_vars

\* The second listing request of a category got a non-success response and
\* the method returned the links of the first page.
ListingFailureReturnsWitness ==
    /\ pc = "returned"
    /\ requests = 2
    /\ response.val.kind = "response"
    /\ response.val.status = HttpNotFound
    /\ links # {}
    /\ Range(urls) = response.val.before

\* csv.DictReader on the lines of a file: one dict per data row, the cells
\* keyed by the fieldnames of the header line.
ReadRows(lines) ==
    [r \in 1..(Len(lines) - 1) |->
        [f \in Range(lines[1]) |->
            lines[r + 1][CHOOSE c \in 1..Len(lines[1]) : lines[1][c] = f]]]

\* C11. Round-trip: after _export_items, reading each destination of the batch
\* back gives one row per record routed to it, in order, and the row holds,
\* for every field of the schema, the record's value, or "" when the record
\* lacks the field.
ExportRoundTrip ==
    (pc = "return" /\ exportState # "none") =>
        \A path \in Range(GroupOrder(items)) :
            /\ path \in DOMAIN files
            /\ Len(ReadRows(files[path])) = Len(GroupOf(items, path))
            /\ \A j \in 1..Len(GroupOf(items, path)) :
                  \A f \in Range(FieldsOf(GroupOf(items, path)[j])) :
                      ReadRows(files[path])[j][f]
                          = Get(ToDict(GroupOf(items, path)[j]), f, "")

\* C12. Every item scrape_item_page builds for a URL the extraction loop
\* yields has a non-empty name.
NameNonEmpty ==
    (probed.some /\ probed.val.item.some) => Len(probed.val.item.val.name) >= 1

\* The weapon tokens of the classification rule.
WeaponTokens == { "1h", "2h", "bow", "throwing", "piercing", "blunt", "slashing" }

\* The Type cells of ProbeTypes that hold a weapon token once case-folded.
WeaponTypeCells ==
    { "1H Slashing", "2H Blunt", "Longbow", "Throwing", "Piercing", "PIERCING", "Blunt" }

\* The token list scanned from its k-th entry round, and scanned backwards.
Rotated(tokens, k) ==
    [i \in 1..Len(tokens) |-> tokens[((i + k - 2) % Len(tokens)) + 1]]
Reversed(tokens) == [i \in 1..Len(tokens) |-> tokens[Len(tokens) + 1 - i]]

\* C13. Classification rule: without a Type attribute the item is Equipment;
\* with one it is Weapon exactly when a weapon token occurs in the case-folded
\* Type, in whatever order the tokens are scanned.
ClassificationRule ==
    (probed.some /\ probed.val.scraped) =>
        LET data == ParseItemData(probe.val.infobox)
            typed == data.some /\ KeyType \in DOMAIN data.val
            folded == IF typed THEN Lower(data.val[KeyType]) ELSE ""
            weapon == probed.val.item_type = "weapon"
        IN  /\ probed.val.item_type \in {"weapon", "equipment"}
            /\ ~typed => ~weapon
            /\ typed => (weapon <=> \E t \in WeaponTokens : Contains(t, folded))
            /\ typed => (weapon <=> data.val[KeyType] \in WeaponTypeCells)
            /\ Range(weapon_types) = WeaponTokens
            /\ \A k \in 1..Len(weapon_types) :
                  /\ AnyIn(Rotated(weapon_types, k), folded, 1) = weapon
                  /\ AnyIn(Reversed(Rotated(weapon_types, k)), folded, 1) = weapon
            /\ probed.val.item.some =>
                  probed.val.item.val.item_type = probed.val.item_type

\* A page whose Type is written with capitals and holds a token inside a
\* longer word was classified as a weapon.
ClassificationRuleWitness ==
    /\ probed.some
    /\ probed.val.scraped
    /\ probed.val.item.some
    /\ probed.val.item.val.attributes[KeyType] = "Longbow"
    /\ probed.val.item_type = "weapon"

\* The positions on page pg of the links that are newly discovered when the
\* set held ls before the page: site-relative, outside the namespaces, not in
\* ls and not further up on the page.
FirstSeenAt(pg, ls) ==
    { n \in 1..Len(pg) :
        /\ IsSiteRelative(pg[n].href)
        /\ ~IsFiltered(pg[n].href)
        /\ (BaseUrl \o pg[n].href) \notin ls
        /\ \A m \in 1..(n - 1) : pg[m].href # pg[n].href }

\* The positions of the links the loop discovers on page pg: those of
\* FirstSeenAt up to the first one whose print raises, where the loop ends.
NewAt(pg, ls) ==
    LET first == FirstSeenAt(pg, ls)
    IN  { n \in first :
            \A m \in first : m < n => ~PrintFoundNewItem(pg[m].text).some }

\* The display text of the last newly discovered link of the page.
LastNewText(pg, ls) ==
    LET new == NewAt(pg, ls)
    IN  pg[CHOOSE n \in new : \A m \in new : m <= n].text

\* The pass of the loop on a success response whose content region is pg.
StepOn(pg) ==
    PaginateStep(links, last_item,
                 [kind |-> "response", status |-> HttpOk, content |-> Some(pg),
                  msg |-> ""])

\* C14. Cursor-exhaustion precedence: a page that yields new links of which
\* the last has empty display text ends the loop without a further request,
\* and its links are in the set that is returned.
CursorExhaustion ==
    /\ [](pc = "fetch" =>
            \A pg \in Pages :
                LET new == NewAt(pg, links)
                    step == StepOn(pg)
                IN  (new # {} /\ LastNewText(pg, links) = "") =>
                        /\ step.to = "paged"
                        /\ step.links
                              = links \cup { BaseUrl \o pg[n].href : n \in new })
    /\ [][(pc = "fetch" /\ response'.some /\ response'.val.after # links
              /\ last_item' = Some("")) =>
            /\ pc' = "paged"
            /\ links' = response'.val.after
            /\ links \subseteq links']_vars
    /\ [][pc = "paged" =>
            /\ pc' = "returned"
            /\ requests' = requests
            /\ Range(urls') = links]_vars

\* A pagination returned the link of a page whose only new link had empty
\* display text.
CursorExhaustionWitness ==
    /\ pc = "returned"
    /\ last_item = Some("")
    /\ response.val.after # response.val.before
    /\ Range(urls) = response.val.after

\* C15. Cursor protocol: the first request of a category goes to the bare
\* category URL, every later one to that URL with ?pagefrom= and the display
\* text of the last newly discovered link of the page before, and a page
\* without a newly discovered link is the last one requested.
CursorProtocol ==
    /\ [](pc = "fetch" =>
            /\ (requests = 0) <=> (last_item = None)
            /\ requests > 0 => last_item.val # ""
            /\ \A pg \in Pages :
                  LET step == StepOn(pg)
                  IN  /\ step.to = "fetch" =>
                            step.last_item = Some(LastNewText(pg, links))
                      /\ NewAt(pg, links) = {} => step.to = "paged")
    /\ [][requests' = requests + 1 =>
            response'.val.url =
                IF requests = 0
                THEN BaseUrl \o categories[cat]
                ELSE BaseUrl \o categories[cat] \o "?pagefrom=" \o last_item.val]_vars
    /\ [][(pc = "fetch" /\ response'.some /\ response'.val.after = links) =>
            pc' # "fetch"]_vars

\* The second request of a category went to the URL with the cursor of the
\* first page.
CursorProtocolWitness ==
    /\ requests = 2
    /\ response.val.url = "https://wiki.project1999.com/Category:Arms?pagefrom=B C"
    /\ response.val.before # {}

\* The markers of the namespace filter as the rule lists them.
FilterMarkers ==
    { "Category:", "Special:", "File:", "Discussion:", "Help:", "User:",
      "Template:", "Project:" }

\* The length of the part of s before its first "?" (all of s without one),
\* scanning from position i.
RECURSIVE PathLen(_, _)
PathLen(s, i) ==
    IF i > Len(s) THEN Len(s)
    ELSE IF CharAt(s, i) = "?" THEN i - 1 ELSE PathLen(s, i + 1)

\* The target path of a URL of the site: what follows the base URL, without
\* the query.
TargetPath(url) ==
    SubSeq(url, Len(BaseUrl) + 1, PathLen(url, Len(BaseUrl) + 1))

\* C16. Namespace filter: every returned URL is the base URL followed by a
\* site-relative href, and its target path holds none of the markers.
NamespaceFilter ==
    ~ItemsRun =>
        \A i \in 1..Len(urls) :
            /\ StartsWith(urls[i], BaseUrl \o "/")
            /\ \A m \in FilterMarkers : ~Contains(m, TargetPath(urls[i]))

\* C17. Export frame: _export_items opens and writes one file for every
\* destination observed in the batch, creates no other file and leaves every
\* other existing file as it was.
ExportFrame ==
    (pc = "return" /\ exportState # "none") =>
        /\ \A path \in Range(GroupOrder(items)) :
              /\ path \in DOMAIN files
              /\ path \in DOMAIN writers
              /\ cat \in writers[path]
        /\ DOMAIN files = DOMAIN prevFiles \cup Range(GroupOrder(items))
        /\ \A path \in DOMAIN files \ Range(GroupOrder(items)) :
              files[path] = prevFiles[path]

\* C18. Append mode: after any calls of export_item on a file that started
\* absent or empty, the file holds the header once, first, and then one row
\* per call in call order.
AppendOneRowPerCall ==
    calls # << >> =>
        /\ csvfile.some
        /\ Len(csvfile.val) = 1 + Len(calls)
        /\ csvfile.val[1] = ClassFIELDS(calls[1])
        /\ \A k \in 1..Len(calls) :
              csvfile.val[k + 1] = RowOf(ClassFIELDS(calls[k]), ToDict(calls[k]))

\* The directory of the files of an archetype.
DirectoryOf(item_type) == IF item_type = "weapon" THEN "weapons" ELSE "equipment"

\* C19. No output file mixes archetypes: the records of a batch that share a
\* destination share the archetype, so the header chosen from the first
\* record of their group is the schema of each of them; Weapon records go
\* under weapons/ and Equipment records under equipment/, and every file
\* carries the header of its directory's archetype.
NoMixedArchetypes ==
    /\ \A i, j \in 1..Len(items) :
          CategoryPathOf(items[i]) = CategoryPathOf(items[j])
              => items[i].item_type = items[j].item_type
    /\ \A i \in 1..Len(items) :
          /\ CategoryPathOf(items[i])[1] = DirectoryOf(items[i].item_type)
          /\ FieldsOf(GroupOf(items, CategoryPathOf(items[i]))[1])
                = (IF items[i].item_type = "weapon" THEN WeaponFIELDS
                   ELSE EquipmentFIELDS)
    /\ \A path \in DOMAIN files :
          /\ path[1] \in {"weapons", "equipment"}
          /\ files[path][1] = (IF path[1] = "weapons" THEN WeaponFIELDS
                               ELSE EquipmentFIELDS)
          /\ \A k \in 2..Len(files[path]) :
                (files[path][k][2] = "1H Slashing") <=> (path[1] = "weapons")

\* A batch of a weapon and an equipment was exported into a file under
\* weapons/ and a file under equipment/.
NoMixedArchetypesWitness ==
    /\ pc = "return"
    /\ exportState # "none"
    /\ Len(items) = 2
    /\ items[1].item_type = "weapon"
    /\ items[2].item_type = "equipment"
    /\ Len(files[<< "weapons", "1H_Weapons" >>]) = 2
    /\ << "equipment", "Head" >> \in DOMAIN files

\* C20. An exception in a listing request makes _extract_category_items
\* return the empty list, whatever the earlier pages held; scrape_category
\* then requests no detail page, writes no file and contributes no item.
ListingExceptionDiscards ==
    /\ [][(pc = "fetch" /\ response'.some /\ response'.val.kind = "exception") =>
            /\ pc' = "returned"
            /\ urls' = << >>]_vars
    /\ [][(pc = "returned" /\ response.some /\ response.val.kind = "exception") =>
            /\ pc' = "return"
            /\ items' = << >>
            /\ fetched' = fetched
            /\ files' = files]_vars
    /\ [][(pc = "return" /\ urls = << >>) =>
            /\ all_items' = all_items
            /\ files' = files
            /\ processed' = Append(processed, cat)]_vars

====
